---- MODULE Spec2Model ----
(***************************************************************************)
(* Model of typedoc-plugin-llms-txt: the reference resolver, the section   *)
(* discoverers, the frontmatter extractor and the renderers of             *)
(* src/src/generator.ts, and the template engine of src/src/options.ts.    *)
(*                                                                         *)
(* Every function of the plugin is synchronous and pure in its arguments.  *)
(* A behaviour of the model is one call: Init draws the operation and its  *)
(* arguments, the operation's action computes the result as the code does. *)
(*                                                                         *)
(* A JavaScript string is a sequence of characters; multi-character words  *)
(* that the code never looks into ("title:", ".md", a host name) are one   *)
(* element.  An optional value (T | undefined) is <<>> or <<v>>.           *)
(***************************************************************************)
EXTENDS Integers, Sequences, FiniteSets, TLC

VARIABLES op, args, pc, resolved, warnings, sections, output

vars == <<op, args, pc, resolved, warnings, sections, output>>

\* ------------------------------------------------------------------------
\* Bounds of the model
\* ------------------------------------------------------------------------

\* longest reference string of a single-request call
MaxRefLen == 5
\* longest list of declaration requests
MaxDecls == 3
\* most documents of a project, most files of a list
MaxDocs == 3
\* most pieces a template is put together from
MaxPieces == 3
\* longest raw YAML value
MaxValueLen == 5
\* longest frontmatter block
MaxBlockLen == 5

\* ------------------------------------------------------------------------
\* Strings
\* ------------------------------------------------------------------------

Undefined == <<>>

Some(v) == <<v>>

\* all sequences over S of length at most n
SeqsUpTo(S, n) == UNION {[1..k -> S] : k \in 0..n}

\* String.prototype.endsWith / startsWith with a one-character argument
endsWith(s, c) == Len(s) > 0 /\ s[Len(s)] = c

startsWith(s, c) == Len(s) > 0 /\ s[1] = c

\* String.prototype.includes with a one-character argument
includes(s, c) == \E i \in 1..Len(s) : s[i] = c

\* String.prototype.split with a one-character separator: the pieces between
\* the separators, always at least one piece
RECURSIVE splitFrom(_, _, _, _)
splitFrom(s, c, i, piece) ==
  IF i > Len(s) THEN <<piece>>
  ELSE IF s[i] = c THEN <<piece>> \o splitFrom(s, c, i + 1, <<>>)
  ELSE splitFrom(s, c, i + 1, Append(piece, s[i]))

split(s, c) == splitFrom(s, c, 1, <<>>)

\* ------------------------------------------------------------------------
\* joinUrl (generator.ts 32-40)
\* ------------------------------------------------------------------------

joinUrl(baseUrl, urlPath) ==
  IF baseUrl = <<>> THEN urlPath
  ELSE LET normalizedBase == IF endsWith(baseUrl, "/")
                             THEN SubSeq(baseUrl, 1, Len(baseUrl) - 1)
                             ELSE baseUrl
           normalizedPath == IF startsWith(urlPath, "/")
                             THEN SubSeq(urlPath, 2, Len(urlPath))
                             ELSE urlPath
       IN normalizedBase \o <<"/">> \o normalizedPath

\* ------------------------------------------------------------------------
\* The symbol tree and the router
\* ------------------------------------------------------------------------

\* A reflection: its name, its children, its documents, and the URL the
\* router holds for it.
Node(name, url, children) ==
  [name |-> name, url |-> url, children |-> children, documents |-> <<>>]

\* router.getFullUrl(reflection)
getFullUrl(reflection) == reflection.url

\* Array.prototype.find((c) => c.name === name) on an optional array: the
\* first match, or undefined
RECURSIVE findFrom(_, _, _)
findFrom(children, name, i) ==
  IF i > Len(children) THEN Undefined
  ELSE IF children[i].name = name THEN Some(children[i])
  ELSE findFrom(children, name, i + 1)

find(children, name) == findFrom(children, name, 1)

\* ------------------------------------------------------------------------
\* resolveDeclarations (generator.ts 423-484)
\* ------------------------------------------------------------------------

\* lines 456-461: for (const part of parts) { current = current?.children
\* ?.find(...); if (!current) break; }, current an optional reflection
RECURSIVE walkParts(_, _)
walkParts(current, parts) ==
  IF parts = <<>> \/ current = Undefined THEN current
  ELSE walkParts(find(current[1].children, Head(parts)), Tail(parts))

\* a walk that keeps the last reflection that did match
RECURSIVE walkPartsKeepLast(_, _)
walkPartsKeepLast(current, parts) ==
  IF parts = <<>> THEN current
  ELSE LET next == find(current[1].children, Head(parts))
       IN IF next = Undefined THEN current
          ELSE walkPartsKeepLast(next, Tail(parts))

\* lines 446-464 with the partial match kept
symbolReferencePartial(ref, project) ==
  LET pieces == split(ref, "!")
      moduleReflection == find(project.children, pieces[1])
  IN IF moduleReflection # Undefined
     THEN walkPartsKeepLast(moduleReflection, split(pieces[2], "."))
     ELSE Undefined

\* lines 446-464: const [moduleName, symbolPath] = ref.split('!'), then the
\* walk from the module along symbolPath.split('.')
symbolReference(ref, project) ==
  LET pieces == split(ref, "!")
      moduleName == pieces[1]
      symbolPath == pieces[2]
      moduleReflection == find(project.children, moduleName)
  IN IF moduleReflection # Undefined
     THEN walkParts(moduleReflection, split(symbolPath, "."))
     ELSE Undefined

\* lines 438-465 with a bare name taken for a module name
resolveReflectionBareName(ref, project) ==
  IF endsWith(ref, "!")
  THEN find(project.children, SubSeq(ref, 1, Len(ref) - 1))
  ELSE IF includes(ref, "!")
  THEN symbolReference(ref, project)
  ELSE find(project.children, ref)

\* lines 438-465: the reflection a reference string resolves to, if any
resolveReflection(ref, project) ==
  IF endsWith(ref, "!")
  THEN find(project.children, SubSeq(ref, 1, Len(ref) - 1))
  ELSE IF includes(ref, "!")
  THEN symbolReference(ref, project)
  ELSE Undefined

WarnPrefix == "[llms-txt] Could not resolve declaration reference: "

\* line 453: symbolPath.split('.') throws a TypeError when the destructuring
\* of line 446 left symbolPath undefined
symbolPathUndefined(ref) ==
  ~endsWith(ref, "!") /\ includes(ref, "!") /\ Len(split(ref, "!")) < 2

\* one iteration that skips an unresolved request without a warning
resolveOneSilent(decl, project, baseUrl, acc) ==
  LET reflection == resolveReflection(decl.ref, project)
  IN IF reflection # Undefined
     THEN [acc EXCEPT !.resolved =
             Append(@, [description |-> decl.description,
                        label |-> decl.label,
                        url |-> joinUrl(baseUrl, getFullUrl(reflection[1]))])]
     ELSE acc

\* lines 432-481: one iteration of the loop, on the accumulated results and
\* the warnings logged so far; an exception ends the loop
resolveOne(decl, project, baseUrl, acc) ==
  IF acc.threw THEN acc
  ELSE IF symbolPathUndefined(decl.ref) THEN [acc EXCEPT !.threw = TRUE]
  ELSE LET reflection == resolveReflection(decl.ref, project)
       IN IF reflection # Undefined
          THEN [acc EXCEPT !.resolved =
                  Append(@, [description |-> decl.description,
                             label |-> decl.label,
                             url |-> joinUrl(baseUrl, getFullUrl(reflection[1]))])]
          ELSE [acc EXCEPT !.warnings = Append(@, <<WarnPrefix>> \o decl.ref)]

RECURSIVE resolveLoop(_, _, _, _, _)
resolveLoop(declarations, project, baseUrl, i, acc) ==
  IF i > Len(declarations) THEN acc
  ELSE resolveLoop(declarations, project, baseUrl, i + 1,
                   resolveOne(declarations[i], project, baseUrl, acc))

\* the loop with "reflection" declared outside it: a request that matches
\* neither branch keeps the reflection of the request before it
RECURSIVE resolveLoopStale(_, _, _, _, _, _)
resolveLoopStale(declarations, project, baseUrl, i, last, acc) ==
  IF i > Len(declarations) THEN acc
  ELSE LET ref == declarations[i].ref
           reflection == IF includes(ref, "!") THEN resolveReflection(ref, project)
                         ELSE last
           entry == [description |-> declarations[i].description,
                     label |-> declarations[i].label,
                     url |-> joinUrl(baseUrl, getFullUrl(reflection[1]))]
       IN resolveLoopStale(declarations, project, baseUrl, i + 1, reflection,
            IF reflection # Undefined
            THEN [acc EXCEPT !.resolved = Append(@, entry)]
            ELSE [acc EXCEPT !.warnings = Append(@, <<WarnPrefix>> \o ref)])

resolveDeclarationsStale(declarations, project, baseUrl) ==
  resolveLoopStale(declarations, project, baseUrl, 1, Undefined,
                   [resolved |-> <<>>, warnings |-> <<>>, threw |-> FALSE])

resolveDeclarations(declarations, project, baseUrl) ==
  resolveLoop(declarations, project, baseUrl, 1,
              [resolved |-> <<>>, warnings |-> <<>>, threw |-> FALSE])

\* ------------------------------------------------------------------------
\* Inputs of resolveDeclarations
\* ------------------------------------------------------------------------

RefChars == {"a", "b", "!", "."}

Refs == SeqsUpTo(RefChars, MaxRefLen)

Project(children) == [children |-> children, documents |-> <<>>]

\* no children at all; a three-level tree; module names of several
\* characters, one holding a dot; siblings of one name
Projects ==
  { Project(<<>>),
    Project(<< Node(<<"a">>, <<"/", "m1">>,
                    << Node(<<"b">>, <<"m1", "/", "b">>,
                            << Node(<<"a">>, <<"m1", "/", "b", "/", "a">>, <<>>) >>),
                       Node(<<"a">>, <<"m1", "/", "a">>, <<>>) >>),
               Node(<<"b">>, <<"m2">>, <<>>) >>),
    Project(<< Node(<<"a", ".", "b">>, <<"/", "m3">>,
                    << Node(<<"b">>, <<"m3", "/", "b">>, <<>>) >>),
               Node(<<"a", "b">>, <<"m4">>,
                    << Node(<<"a", ".", "b">>, <<"m4", "/", "ab">>, <<>>) >>) >>),
    Project(<< Node(<<"a">>, <<"m5">>,
                    << Node(<<"b">>, <<"m5", "/", "b">>, <<>>) >>),
               Node(<<"a">>, <<"m6">>,
                    << Node(<<"a">>, <<"m6", "/", "a">>, <<>>) >>) >>) }

BaseUrls == {<<>>, <<"https://x.io", "/">>}

\* a request: its reference, its label and its optional description
Request(ref, label, description) ==
  [ref |-> ref, label |-> label, description |-> description]

\* the references of the longer lists: a module, a member, a chain that
\* breaks at its last segment, a name without '!'
ListRefs ==
  { <<"a", "!">>, <<"a", "!", "b", ".", "a">>, <<"a", "!", "b", ".", "b">>, <<"a">> }

ListRequests ==
  {Request(r, <<"L1">>, Undefined) : r \in ListRefs}
    \cup {Request(r, <<"L2">>, Some(<<"D2">>)) : r \in ListRefs}

\* the arguments of a call
ResolveArgs(declarations, project, baseUrl) ==
  [declarations |-> declarations, project |-> project, baseUrl |-> baseUrl]

\* ------------------------------------------------------------------------
\* Frontmatter (generator.ts 95-162)
\* ------------------------------------------------------------------------

\* what the regular expressions' \s matches
Whitespace == {" ", "\n"}

\* String.prototype.trim
RECURSIVE trimStart(_)
trimStart(s) ==
  IF s # <<>> /\ Head(s) \in Whitespace THEN trimStart(Tail(s)) ELSE s

RECURSIVE trimEnd(_)
trimEnd(s) ==
  IF s # <<>> /\ s[Len(s)] \in Whitespace THEN trimEnd(SubSeq(s, 1, Len(s) - 1)) ELSE s

trim(s) == trimEnd(trimStart(s))

\* an unquoting that takes any two quote characters for a pair
stripYamlQuotesAnyPair(value) ==
  LET trimmed == trim(value)
      quotes == {"'", "\""}
  IN IF Len(trimmed) >= 2 /\ trimmed[1] \in quotes /\ trimmed[Len(trimmed)] \in quotes
     THEN SubSeq(trimmed, 2, Len(trimmed) - 1)
     ELSE trimmed

\* stripYamlQuotes (95-109)
stripYamlQuotes(value) ==
  LET trimmed == trim(value)
  IN IF startsWith(trimmed, "'") /\ endsWith(trimmed, "'") /\ Len(trimmed) >= 2
     THEN SubSeq(trimmed, 2, Len(trimmed) - 1)
     ELSE IF startsWith(trimmed, "\"") /\ endsWith(trimmed, "\"") /\ Len(trimmed) >= 2
     THEN SubSeq(trimmed, 2, Len(trimmed) - 1)
     ELSE trimmed

\* line 121, /^---\n([\s\S]*?)\n---/: the text between the opening "---\n"
\* and the first "\n---" after it, or undefined
RECURSIVE headerEnd(_, _)
headerEnd(content, j) ==
  IF j + 1 > Len(content) THEN 0
  ELSE IF content[j] = "\n" /\ content[j + 1] = "---" THEN j
  ELSE headerEnd(content, j + 1)

headerBlock(content) ==
  IF Len(content) >= 2 /\ content[1] = "---" /\ content[2] = "\n"
  THEN LET j == headerEnd(content, 3)
       IN IF j = 0 THEN Undefined ELSE Some(SubSeq(content, 3, j - 1))
  ELSE Undefined

\* the longest run of characters of S in s from position i on
RECURSIVE runLength(_, _, _)
runLength(s, i, S) ==
  IF i <= Len(s) /\ s[i] \in S THEN 1 + runLength(s, i + 1, S) ELSE 0

RECURSIVE lineLength(_, _)
lineLength(s, i) ==
  IF i <= Len(s) /\ s[i] # "\n" THEN 1 + lineLength(s, i + 1) ELSE 0

\* \s*(.+)$ after the key at position p: \s* is greedy and gives characters
\* back until (.+) finds one character that is no line break; (.+) then runs
\* to the end of that line
RECURSIVE valueAfter(_, _, _)
valueAfter(s, p, k) ==
  LET start == p + 1 + k
  IN IF lineLength(s, start) >= 1
     THEN Some(SubSeq(s, start, start + lineLength(s, start) - 1))
     ELSE IF k = 0 THEN Undefined
     ELSE valueAfter(s, p, k - 1)

\* lines 129 and 134, /^key:\s*(.+)$/m: the capture of the first line start
\* where the pattern matches
RECURSIVE keyMatch(_, _, _)
keyMatch(s, key, p) ==
  IF p > Len(s) THEN Undefined
  ELSE LET atLineStart == p = 1 \/ s[p - 1] = "\n"
           value == valueAfter(s, p, runLength(s, p + 1, Whitespace))
       IN IF atLineStart /\ s[p] = key /\ value # Undefined
          THEN value
          ELSE keyMatch(s, key, p + 1)

\* the result object's field for one key (lines 129-137)
frontmatterField(block, key) ==
  LET captured == keyMatch(block, key, 1)
  IN IF captured # Undefined THEN Some(stripYamlQuotes(captured[1])) ELSE Undefined

\* extractFrontmatter (118-140): undefined stands for null
extractFrontmatter(content) ==
  LET match == headerBlock(content)
  IN IF match = Undefined \/ match = Some(<<>>)
     THEN Undefined
     ELSE Some([title |-> frontmatterField(match[1], "title:"),
                category |-> frontmatterField(match[1], "category:")])

\* titleToUrlPath (156-162): '@' to '-I_' and '/' to '_', then ' & ' to
\* '___', then ' ' to '_'
RECURSIVE replaceAtAndSlash(_)
replaceAtAndSlash(t) ==
  IF t = <<>> THEN <<>>
  ELSE (IF Head(t) = "@" THEN <<"-", "I", "_">>
        ELSE IF Head(t) = "/" THEN <<"_">>
        ELSE <<Head(t)>>) \o replaceAtAndSlash(Tail(t))

RECURSIVE replaceAmpersand(_)
replaceAmpersand(t) ==
  IF t = <<>> THEN <<>>
  ELSE IF Len(t) >= 3 /\ t[1] = " " /\ t[2] = "&" /\ t[3] = " "
  THEN <<"_", "_", "_">> \o replaceAmpersand(SubSeq(t, 4, Len(t)))
  ELSE <<Head(t)>> \o replaceAmpersand(Tail(t))

replaceSpaces(t) == [i \in 1..Len(t) |-> IF t[i] = " " THEN "_" ELSE t[i]]

titleToUrlPath(title) == replaceSpaces(replaceAmpersand(replaceAtAndSlash(title)))

\* ------------------------------------------------------------------------
\* Sections (generator.ts 179-335)
\* ------------------------------------------------------------------------

\* The collation rank of a character: blank, punctuation, then letters in
\* alphabetical order.  A word that is one element ranks by its first
\* letter, behind that letter alone.
CharRank(c) ==
  CASE c = " " -> 0 [] c = "_" -> 1 [] c = "-" -> 2 [] c = "'" -> 3
    [] c = "\"" -> 4 [] c = "@" -> 5 [] c = "/" -> 6 [] c = "&" -> 7
    [] c = "a" -> 10 [] c = "b" -> 20 [] c = "c" -> 30 [] c = "category:" -> 31
    [] c = "Documentation" -> 40 [] c = "g" -> 70 [] c = "h" -> 80
    [] c = "title:" -> 200

\* a.localeCompare(b) for strings of ranked characters: negative, zero or
\* positive
RECURSIVE localeCompare(_, _)
localeCompare(a, b) ==
  IF a = <<>> /\ b = <<>> THEN 0
  ELSE IF a = <<>> THEN -1
  ELSE IF b = <<>> THEN 1
  ELSE IF CharRank(Head(a)) # CharRank(Head(b))
  THEN CharRank(Head(a)) - CharRank(Head(b))
  ELSE localeCompare(Tail(a), Tail(b))

\* Array.prototype.sort is stable: an element goes behind every element
\* that does not compare greater than it
RECURSIVE insertByTitle(_, _)
insertByTitle(sorted, doc) ==
  IF sorted = <<>> THEN <<doc>>
  ELSE IF localeCompare(sorted[Len(sorted)].title, doc.title) <= 0
  THEN Append(sorted, doc)
  ELSE Append(insertByTitle(SubSeq(sorted, 1, Len(sorted) - 1), doc),
              sorted[Len(sorted)])

RECURSIVE sortByTitleFrom(_)
sortByTitleFrom(documents) ==
  IF documents = <<>> THEN <<>>
  ELSE insertByTitle(sortByTitleFrom(SubSeq(documents, 1, Len(documents) - 1)),
                     documents[Len(documents)])

\* the documents left in the order they were pushed
keepPushOrder(documents) == documents

\* documents.sort((a, b) => a.title.localeCompare(b.title)), lines 256, 327
sortByTitle(documents) == sortByTitleFrom(documents)

RECURSIVE insertByOrder(_, _)
insertByOrder(sorted, section) ==
  IF sorted = <<>> THEN <<section>>
  ELSE IF sorted[Len(sorted)].order - section.order <= 0
  THEN Append(sorted, section)
  ELSE Append(insertByOrder(SubSeq(sorted, 1, Len(sorted) - 1), section),
              sorted[Len(sorted)])

RECURSIVE sortByOrderFrom(_)
sortByOrderFrom(list) ==
  IF list = <<>> THEN <<>>
  ELSE insertByOrder(sortByOrderFrom(SubSeq(list, 1, Len(list) - 1)),
                     list[Len(list)])

\* sections.sort((a, b) => a.order - b.order), lines 263, 334
sortByOrder(list) == sortByOrderFrom(list)

\* let autoOrder = 1000, lines 250, 321
AutoOrderStart == 1000

\* sectionMap: the categories in the order of their first document, each
\* with its documents in the order they were pushed (lines 224-234, 304-313)
RECURSIVE mapIndex(_, _, _)
mapIndex(sectionMap, category, i) ==
  IF i > Len(sectionMap) THEN 0
  ELSE IF sectionMap[i].category = category THEN i
  ELSE mapIndex(sectionMap, category, i + 1)

pushDocument(sectionMap, document) ==
  LET i == mapIndex(sectionMap, document.category, 1)
  IN IF i = 0
     THEN Append(sectionMap, [category |-> document.category, documents |-> <<document>>])
     ELSE [sectionMap EXCEPT ![i].documents = Append(@, document)]

\* sectionConfig[category]
configOf(sectionConfig, category) ==
  IF category \in DOMAIN sectionConfig THEN Some(sectionConfig[category]) ELSE Undefined

\* lines 252-260, 323-331: one section per category of the map, in the
\* map's order, autoOrder counting the sections without a configuration
RECURSIVE sectionsFrom(_, _, _, _)
sectionsFrom(sectionMap, sectionConfig, i, autoOrder) ==
  IF i > Len(sectionMap) THEN <<>>
  ELSE LET category == sectionMap[i].category
           config == configOf(sectionConfig, category)
           section ==
             [displayName |-> IF config # Undefined THEN config[1].displayName ELSE category,
              documents |-> sortByTitle(sectionMap[i].documents),
              name |-> category,
              order |-> IF config # Undefined THEN config[1].order ELSE autoOrder]
       IN <<section>> \o sectionsFrom(sectionMap, sectionConfig, i + 1,
                           IF config # Undefined THEN autoOrder ELSE autoOrder + 1)

\* the sections left in the order of the map
toSectionsUnsorted(sectionMap, sectionConfig) ==
  sectionsFrom(sectionMap, sectionConfig, 1, AutoOrderStart)

\* lines 248-263, 319-334
toSections(sectionMap, sectionConfig) ==
  sortByOrder(sectionsFrom(sectionMap, sectionConfig, 1, AutoOrderStart))

\* ------------------------------------------------------------------------
\* discoverSectionsFromProject (generator.ts 179-264)
\* ------------------------------------------------------------------------

DefaultCategory == <<"Documentation">>

\* a frontmatter value as typeof sees it
StringValue(v) == [type |-> "string", value |-> v]

OtherValue == [type |-> "number", value |-> <<>>]

\* lines 212-215: categoryTag.content.map((part) => part.text).join('').trim()
RECURSIVE joinParts(_)
joinParts(content) ==
  IF content = <<>> THEN <<>> ELSE Head(content).text \o joinParts(Tail(content))

\* lines 208-210: blockTags.find((tag) => tag.tag === '@category')
RECURSIVE findCategoryTag(_, _)
findCategoryTag(blockTags, i) ==
  IF i > Len(blockTags) THEN Undefined
  ELSE IF blockTags[i].tag = "@category" THEN Some(blockTags[i])
  ELSE findCategoryTag(blockTags, i + 1)

\* lines 195-204: the frontmatter's category when it is a non-empty string
frontmatterCategory(doc) ==
  IF /\ doc.frontmatter # Undefined
     /\ doc.frontmatter[1].category # Undefined
     /\ doc.frontmatter[1].category[1].type = "string"
     /\ doc.frontmatter[1].category[1].value # <<>>
  THEN Some(doc.frontmatter[1].category[1].value)
  ELSE Undefined

\* lines 206-217: else the text of the first @category block tag
tagCategory(doc) ==
  IF doc.comment # Undefined
  THEN LET categoryTag == findCategoryTag(doc.comment[1].blockTags, 1)
       IN IF categoryTag # Undefined
          THEN Some(trim(joinParts(categoryTag[1].content)))
          ELSE Undefined
  ELSE Undefined

\* lines 195-222: the category of a document
documentCategory(doc) ==
  LET fromFrontmatter == frontmatterCategory(doc)
      category == IF fromFrontmatter # Undefined THEN fromFrontmatter ELSE tagCategory(doc)
  IN IF category = Undefined \/ category = Some(<<>>)
     THEN DefaultCategory
     ELSE category[1]

\* lines 224-234: the entry pushed for a document
documentEntry(doc, baseUrl) ==
  [category |-> documentCategory(doc),
   path |-> joinUrl(baseUrl, getFullUrl(doc)),
   title |-> doc.name]

\* lines 191-236: the documents of one reflection, in order
RECURSIVE collectOwn(_, _, _, _)
collectOwn(documents, baseUrl, i, sectionMap) ==
  IF i > Len(documents) THEN sectionMap
  ELSE collectOwn(documents, baseUrl, i + 1,
                  pushDocument(sectionMap, documentEntry(documents[i], baseUrl)))

\* lines 188-244: a reflection's documents, then its children's, recursively
RECURSIVE collectDocuments(_, _, _)
RECURSIVE collectChildren(_, _, _, _)
collectDocuments(reflection, baseUrl, sectionMap) ==
  collectChildren(reflection.children, baseUrl, 1,
                  collectOwn(reflection.documents, baseUrl, 1, sectionMap))

collectChildren(children, baseUrl, i, sectionMap) ==
  IF i > Len(children) THEN sectionMap
  ELSE collectChildren(children, baseUrl, i + 1,
                       collectDocuments(children[i], baseUrl, sectionMap))

discoverSectionsFromProject(project, sectionConfig, baseUrl) ==
  toSections(collectDocuments(project, baseUrl, <<>>), sectionConfig)

\* ------------------------------------------------------------------------
\* discoverSections (generator.ts 277-335)
\* ------------------------------------------------------------------------

\* path.basename: what follows the last '/'
RECURSIVE basename(_)
basename(docPath) ==
  IF includes(docPath, "/") THEN basename(Tail(docPath)) ELSE docPath

\* lines 285-301: the frontmatter of a file that takes part, or undefined.
\* disk[docPath] is undefined when readFileSync throws.
qualifyingFrontmatter(docPath, disk) ==
  IF ~endsWith(docPath, ".md") THEN Undefined
  ELSE IF disk[docPath] = Undefined THEN Undefined
  ELSE LET frontmatter == extractFrontmatter(disk[docPath][1])
       IN IF \/ frontmatter = Undefined
             \/ frontmatter[1].title = Undefined \/ frontmatter[1].title = Some(<<>>)
             \/ frontmatter[1].category = Undefined \/ frontmatter[1].category = Some(<<>>)
          THEN Undefined
          ELSE IF basename(docPath) = <<"all", ".md">> THEN Undefined
          ELSE frontmatter

\* lines 303-313: the entry pushed for a file
fileEntry(frontmatter, baseUrl) ==
  [category |-> frontmatter.category[1],
   path |-> baseUrl \o <<"/">>
              \o <<"documents", "/">> \o titleToUrlPath(frontmatter.title[1]) \o <<"/">>,
   title |-> frontmatter.title[1]]

\* lines 284-317
RECURSIVE readDocuments(_, _, _, _, _)
readDocuments(projectDocuments, disk, baseUrl, i, sectionMap) ==
  IF i > Len(projectDocuments) THEN sectionMap
  ELSE LET frontmatter == qualifyingFrontmatter(projectDocuments[i], disk)
       IN readDocuments(projectDocuments, disk, baseUrl, i + 1,
            IF frontmatter = Undefined THEN sectionMap
            ELSE pushDocument(sectionMap, fileEntry(frontmatter[1], baseUrl)))

discoverSections(projectDocuments, disk, sectionConfig, baseUrl) ==
  toSections(readDocuments(projectDocuments, disk, baseUrl, 1, <<>>), sectionConfig)

\* ------------------------------------------------------------------------
\* autoGenerateDeclarations (generator.ts 344-404)
\* ------------------------------------------------------------------------

\* getKindDescription (344-367): the words for a reflection's kind
getKindDescription(reflection) == <<"declaration">>

\* lines 390-400: one declaration per top-level child, in order
autoGenerateDeclarations(project, baseUrl) ==
  [i \in 1..Len(project.children) |->
     LET child == project.children[i]
     IN [description |-> Some(child.name \o <<" ">> \o getKindDescription(child)),
         label |-> child.name,
         url |-> joinUrl(baseUrl, getFullUrl(child))]]

\* ------------------------------------------------------------------------
\* Renderers (generator.ts 600-680)
\* ------------------------------------------------------------------------

\* Array.prototype.join
RECURSIVE join(_, _)
join(lines, separator) ==
  IF lines = <<>> THEN <<>>
  ELSE IF Len(lines) = 1 THEN lines[1]
  ELSE lines[1] \o separator \o join(Tail(lines), separator)

\* renderSection (600-607)
renderSection(section) ==
  join(<< <<"## ">> \o section.displayName >>
         \o [k \in 1..Len(section.documents) |->
               <<"- [">> \o section.documents[k].title \o <<"](">>
                 \o section.documents[k].path \o <<")">>],
       <<"\n">>)

\* renderHeader (616-633)
renderHeader(header) ==
  join(<< <<"# ">> \o header.name, <<>> >>
         \o (IF header.description # <<>>
             THEN << <<"> ">> \o header.description, <<>> >>
             ELSE <<>>)
         \o [k \in 1..Len(header.features) |-> <<"- ">> \o header.features[k]],
       <<"\n">>)

\* renderDeclarations (642-659): a description is optional, and an empty
\* one counts as none
renderDeclarations(declarations) ==
  IF Len(declarations) = 0 THEN <<>>
  ELSE join(<< <<"## API">> >>
              \o [k \in 1..Len(declarations) |->
                    LET decl == declarations[k]
                        link == <<"- [">> \o decl.label \o <<"](">> \o decl.url \o <<")">>
                    IN IF decl.description # Undefined /\ decl.description # Some(<<>>)
                       THEN link \o <<": ">> \o decl.description[1]
                       ELSE link],
            <<"\n">>)

\* renderQuickReference (668-680); FENCE stands for the three backquotes of
\* a code fence
renderQuickReference(quickReference) ==
  IF quickReference = <<>> THEN <<>>
  ELSE join(<< <<"## Quick Reference">>, <<>>, <<"FENCE", "javascript">>,
               trim(quickReference), <<"FENCE">> >>,
            <<"\n">>)

\* ------------------------------------------------------------------------
\* Template engine (options.ts 199-271)
\* ------------------------------------------------------------------------

\* The characters and words of templates and fragments that the regular
\* expression's \w matches.  A word is one element; no two sequences of
\* these words spell the same string.
WordChars ==
  {"header", "sections", "section", "declarations", "quickReference",
   "unknown", "javascript", "A", "G", "g", "h", "x", "a", "b", "c", "f"}

\* lines 240-242: content.sections.find((s) => s.name === categoryName ||
\* s.displayName === categoryName)
RECURSIVE findSection(_, _, _)
findSection(contentSections, categoryName, i) ==
  IF i > Len(contentSections) THEN Undefined
  ELSE IF \/ contentSections[i].name = categoryName
          \/ contentSections[i].displayName = categoryName
  THEN Some(contentSections[i])
  ELSE findSection(contentSections, categoryName, i + 1)

\* lines 238-247: the slot section:CategoryName
renderNamedSection(categoryName, content) ==
  LET section == findSection(content.sections, categoryName, 1)
  IN IF section # Undefined
     THEN renderSection(section[1])
     ELSE <<"<!-- Section \"">> \o categoryName \o <<"\" not found -->">>

\* a switch whose default case gives nothing for a token it does not know
renderSlotUnknownEmpty(slot, content) ==
  IF slot = <<"declarations">> THEN renderDeclarations(content.declarations)
  ELSE IF slot = <<"header">> THEN renderHeader(content.header)
  ELSE IF slot = <<"quickReference">> THEN renderQuickReference(content.quickReference)
  ELSE IF slot = <<"sections">>
  THEN join([k \in 1..Len(content.sections) |-> renderSection(content.sections[k])],
            <<"\n", "\n">>)
  ELSE IF Len(slot) >= 2 /\ slot[1] = "section" /\ slot[2] = ":"
  THEN renderNamedSection(SubSeq(slot, 3, Len(slot)), content)
  ELSE <<>>

\* renderSlot (219-250)
renderSlot(slot, content) ==
  IF slot = <<"declarations">> THEN renderDeclarations(content.declarations)
  ELSE IF slot = <<"header">> THEN renderHeader(content.header)
  ELSE IF slot = <<"quickReference">> THEN renderQuickReference(content.quickReference)
  ELSE IF slot = <<"sections">>
  THEN join([k \in 1..Len(content.sections) |-> renderSection(content.sections[k])],
            <<"\n", "\n">>)
  ELSE IF Len(slot) >= 2 /\ slot[1] = "section" /\ slot[2] = ":"
  THEN renderNamedSection(SubSeq(slot, 3, Len(slot)), content)
  ELSE <<"<!-- Unknown slot: ">> \o slot \o <<" -->">>

\* /\{\{(\w+(?::\w+)?)\}\}/ tried at position i: the position of the last
\* character of the match, or 0.  \w+ is greedy and what follows it is no
\* word character, so giving characters back never helps.
slotEnd(template, i) ==
  LET at(j) == IF j <= Len(template) THEN template[j] ELSE ""
      first == runLength(template, i + 2, WordChars)
      afterFirst == i + 2 + first
      second == IF at(afterFirst) = ":"
                THEN runLength(template, afterFirst + 1, WordChars)
                ELSE 0
      afterSecond == IF second >= 1 THEN afterFirst + 1 + second ELSE afterFirst
  IN IF at(i) = "{" /\ at(i + 1) = "{" /\ first >= 1
        /\ at(afterSecond) = "}" /\ at(afterSecond + 1) = "}"
     THEN afterSecond + 1
     ELSE 0

\* findSlots (199-209): the captures of all matches, left to right
RECURSIVE findSlotsFrom(_, _)
findSlotsFrom(template, i) ==
  IF i > Len(template) THEN <<>>
  ELSE LET end == slotEnd(template, i)
       IN IF end = 0 THEN findSlotsFrom(template, i + 1)
          ELSE <<SubSeq(template, i + 2, end - 2)>> \o findSlotsFrom(template, end + 1)

findSlots(template) == findSlotsFrom(template, 1)

\* String.prototype.replace with the global pattern (265-270): each match,
\* found from the end of the one before, gives way to its rendering; the
\* text between the matches is copied
RECURSIVE replaceFrom(_, _, _)
replaceFrom(template, content, i) ==
  IF i > Len(template) THEN <<>>
  ELSE LET end == slotEnd(template, i)
       IN IF end = 0
          THEN <<template[i]>> \o replaceFrom(template, content, i + 1)
          ELSE renderSlot(SubSeq(template, i + 2, end - 2), content)
                 \o replaceFrom(template, content, end + 1)

\* a second pass over the output of the first
applyTemplateTwice(template, content) ==
  replaceFrom(replaceFrom(template, content, 1), content, 1)

\* applyTemplate (260-271)
applyTemplate(template, content) == replaceFrom(template, content, 1)

\* ------------------------------------------------------------------------
\* Inputs of section discovery
\* ------------------------------------------------------------------------

\* the orders a configuration gives
ConfigOrders == {1, 2, AutoOrderStart}

ConfigCategories == {<<"g">>, <<"h">>}

\* a configured display name: a name of its own for g, while h is shown
\* under the name of category g
DisplayNameOf(category) == IF category = <<"g">> THEN <<"G">> ELSE <<"g">>

\* llmsTxtSections: any of the categories, each with any of the orders
SectionConfigs ==
  UNION { { [c \in D |-> [displayName |-> DisplayNameOf(c), order |-> o[c]]] :
              o \in [D -> ConfigOrders] } : D \in SUBSET ConfigCategories }

\* A document reflection: its name, the URL the router holds for it, the
\* markdown file it was read from, its parsed frontmatter and its comment.
Document(name, file, frontmatter, comment) ==
  [name |-> name, url |-> <<>>, file |-> file, frontmatter |-> frontmatter,
   comment |-> comment]

Tag(tag, texts) == [tag |-> tag, content |-> [i \in 1..Len(texts) |-> [text |-> texts[i]]]]

\* the documents of a project: categories from the frontmatter, from a
\* @category tag behind another tag, from nowhere (an empty frontmatter
\* category and a blank tag; a frontmatter category that is no string), a
\* document without a name, and the aggregator all.md
DocumentPool ==
  { Document(<<"a">>, <<"a", ".md">>,
             Some([category |-> Some(StringValue(<<"g">>))]), Undefined),
    Document(<<"b">>, <<"b", ".md">>,
             Some([category |-> Some(StringValue(<<"h">>))]),
             Some([blockTags |-> << Tag("@category", << <<"g">> >>) >>])),
    Document(<<"c">>, <<"c", ".md">>, Undefined,
             Some([blockTags |-> << Tag("@group", << <<"g">> >>),
                                    Tag("@category", << <<" ">>, <<"h">> >>) >>])),
    Document(<<"a">>, <<"d", ".md">>,
             Some([category |-> Some(StringValue(<<>>))]),
             Some([blockTags |-> << Tag("@category", << <<" ">> >>) >>])),
    Document(<<>>, <<"e", ".md">>,
             Some([category |-> Some(OtherValue)]), Undefined),
    Document(<<"b">>, <<"all", ".md">>,
             Some([category |-> Some(StringValue(<<"g">>))]), Undefined) }

\* the router's URL of the i-th document of the project
DocumentUrl(i) ==
  IF i % 2 = 1 THEN <<"/", "documents", "/", ToString(i)>>
  ELSE <<"documents", "/", ToString(i)>>

Routed(docs) == [i \in 1..Len(docs) |-> [docs[i] EXCEPT !.url = DocumentUrl(i)]]

\* a project with the first k of the documents as its own, the next one in
\* a module and the others in a namespace of that module
ProjectOf(docs, k) ==
  LET routed == Routed(docs)
      n == Len(docs)
      Part(from, to) == IF from > n \/ to < from THEN <<>>
                        ELSE SubSeq(routed, from, IF to > n THEN n ELSE to)
      own == Part(1, k)
      inModule == Part(k + 1, k + 1)
      inNamespace == Part(k + 2, n)
  IN [children |->
        << [Node(<<"m">>, <<"modules", "/", "m">>,
                 << [Node(<<"n">>, <<"modules", "/", "m", "/", "n">>, <<>>)
                       EXCEPT !.documents = inNamespace] >>)
              EXCEPT !.documents = inModule] >>,
      documents |-> own]

ProjectArgs(docs, k, sectionConfig, baseUrl) ==
  [project |-> ProjectOf(docs, k), documents |-> Routed(docs),
   sectionConfig |-> sectionConfig, baseUrl |-> baseUrl]

\* a markdown file with a frontmatter block of the given lines
Markdown(block) == <<"---", "\n">> \o block \o <<"\n", "---", "\n", "text">>

\* The files on disk: complete frontmatter, plain and quoted; the aggregator;
\* a title or a category that is missing, has no value on its line or is an
\* empty quoted string; no frontmatter; a file that is no markdown; a file
\* that cannot be read.
Disk ==
  (<<"docs", "/", "a", ".md">> :>
     Some(Markdown(<<"title:", " ", "a", "\n", "category:", " ", "g">>)))
  @@ (<<"b", ".md">> :>
     Some(Markdown(<<"category:", " ", "h", "\n", "title:", " ", "'", "b", "'">>)))
  @@ (<<"docs", "/", "all", ".md">> :>
     Some(Markdown(<<"title:", " ", "c", "\n", "category:", " ", "g">>)))
  @@ (<<"notitle", ".md">> :>
     Some(Markdown(<<"category:", " ", "g">>)))
  @@ (<<"nocategory", ".md">> :>
     Some(Markdown(<<"title:", " ", "b">>)))
  @@ (<<"blankcategory", ".md">> :>
     Some(Markdown(<<"category:", "\n", "title:", " ", "c">>)))
  @@ (<<"blanktitle", ".md">> :>
     Some(Markdown(<<"title:", "\n", "category:", " ", "h">>)))
  @@ (<<"emptytitle", ".md">> :>
     Some(Markdown(<<"title:", " ", "'", "'", "\n", "category:", " ", "h">>)))
  @@ (<<"plain", ".md">> :> Some(<<"text">>))
  @@ (<<"a", ".txt">> :>
     Some(Markdown(<<"title:", " ", "a", "\n", "category:", " ", "g">>)))
  @@ (<<"gone", ".md">> :> Undefined)

FilePool ==
  { <<"docs", "/", "a", ".md">>, <<"b", ".md">>, <<"docs", "/", "all", ".md">>,
    <<"notitle", ".md">>, <<"nocategory", ".md">>, <<"blankcategory", ".md">>,
    <<"blanktitle", ".md">>, <<"emptytitle", ".md">>, <<"plain", ".md">>,
    <<"a", ".txt">>, <<"gone", ".md">> }

FilesArgs(projectDocuments, sectionConfig, baseUrl) ==
  [projectDocuments |-> projectDocuments, disk |-> Disk,
   sectionConfig |-> sectionConfig, baseUrl |-> baseUrl]

\* ------------------------------------------------------------------------
\* Inputs of the template engine, the extractor and autoGenerateDeclarations
\* ------------------------------------------------------------------------

\* {{token}}
Placeholder(token) == <<"{", "{">> \o token \o <<"}", "}">>

\* What templates are put together from: the five kinds of slot, a section
\* named by its display name only and one that does not exist, unknown
\* tokens with and without a colon, a token that ends with its colon, and
\* plain text
TemplatePieces ==
  { Placeholder(<<"header">>), Placeholder(<<"sections">>),
    Placeholder(<<"declarations">>), Placeholder(<<"quickReference">>),
    Placeholder(<<"section", ":", "g">>), Placeholder(<<"section", ":", "G">>),
    Placeholder(<<"section", ":", "x">>), Placeholder(<<"unknown">>),
    Placeholder(<<"x", ":", "g">>), Placeholder(<<"x", ":">>),
    <<"{">>, <<"}">>, <<"A">> }

Templates == {join(pieces, <<>>) : pieces \in SeqsUpTo(TemplatePieces, MaxPieces)}

\* a section as discovery returns it
SectionOf(name, displayName, order, titles) ==
  [name |-> name, displayName |-> displayName, order |-> order,
   documents |-> [k \in 1..Len(titles) |->
                    [category |-> name, title |-> titles[k],
                     path |-> <<"/", "documents", "/">> \o titles[k]]]]

Content(name, description, features, contentSections, declarations, quickReference) ==
  [header |-> [name |-> name, description |-> description, features |-> features],
   sections |-> contentSections, declarations |-> declarations,
   quickReference |-> quickReference]

\* The content bundles: nothing but a name; category g shown as "G" before
\* category h shown as "g", and the same two the other way round (h has the
\* lower configured order); fragments that hold placeholder text themselves.
Contents ==
  { Content(<<"x">>, <<>>, <<>>, <<>>, <<>>, <<>>),
    Content(<<"x">>, <<"a">>, << <<"f">> >>,
            << SectionOf(<<"g">>, <<"G">>, 1, << <<"a">>, <<"b">> >>),
               SectionOf(<<"h">>, <<"g">>, 2, << <<"c">> >>) >>,
            << [label |-> <<"a">>, url |-> <<"/", "a">>, description |-> Undefined] >>,
            <<" ", "a", "\n">>),
    Content(<<"x">>, <<>>, <<>>,
            << SectionOf(<<"h">>, <<"g">>, 1, << <<"c">> >>),
               SectionOf(<<"g">>, <<"G">>, 2, << <<"a">>, <<"b">> >>) >>,
            << [label |-> <<"a">>, url |-> <<"/", "a">>, description |-> Some(<<>>)] >>,
            <<>>),
    Content(Placeholder(<<"header">>), Placeholder(<<"unknown">>), <<>>,
            << SectionOf(<<"g">>, <<"g">>, AutoOrderStart,
                         << Placeholder(<<"section", ":", "g">>) >>) >>,
            << [label |-> Placeholder(<<"declarations">>), url |-> <<"/", "a">>,
                description |-> Some(Placeholder(<<"sections">>))] >>,
            Placeholder(<<"quickReference">>)) }

TemplateArgs(template, content) == [template |-> template, content |-> content]

\* the characters of a raw YAML value
ValueChars == {" ", "\n", "'", "\"", "a"}

Values == SeqsUpTo(ValueChars, MaxValueLen)

\* the characters and words of a frontmatter block
BlockChars == {"title:", "category:", " ", "\n", "a", "'"}

Blocks == SeqsUpTo(BlockChars, MaxBlockLen)

\* ------------------------------------------------------------------------
\* The state machine
\* ------------------------------------------------------------------------

Init ==
  /\ pc = "called"
  /\ resolved = <<>>
  /\ warnings = <<>>
  /\ sections = <<>>
  /\ output = <<>>
  /\ \/ /\ op = "resolveDeclarations"
        /\ \E r \in Refs, p \in Projects, b \in BaseUrls :
             args = ResolveArgs(<<Request(r, <<"L1">>, Undefined)>>, p, b)
     \/ /\ op = "resolveDeclarations"
        /\ \E ds \in SeqsUpTo(ListRequests, MaxDecls), p \in Projects, b \in BaseUrls :
             args = ResolveArgs(ds, p, b)
     \/ /\ op = "discoverSectionsFromProject"
        /\ \E docs \in SeqsUpTo(DocumentPool, MaxDocs), k \in 0..1,
              c \in SectionConfigs, b \in BaseUrls :
             args = ProjectArgs(docs, k, c, b)
     \/ /\ op = "discoverSections"
        /\ \E files \in SeqsUpTo(FilePool, MaxDocs), c \in SectionConfigs,
              b \in BaseUrls :
             args = FilesArgs(files, c, b)
     \/ /\ op = "autoGenerateDeclarations"
        /\ \E p \in Projects, b \in BaseUrls :
             args = [project |-> p, baseUrl |-> b]
     \/ /\ op = "applyTemplate"
        /\ \E t \in Templates, c \in Contents : args = TemplateArgs(t, c)
     \/ /\ op = "stripYamlQuotes"
        /\ \E v \in Values : args = [value |-> v]
     \/ /\ op = "extractFrontmatter"
        /\ \E block \in Blocks, delimited \in BOOLEAN :
             args = [content |-> IF delimited THEN Markdown(block) ELSE block]

ResolveDeclarations ==
  /\ pc = "called"
  /\ op = "resolveDeclarations"
  /\ LET r == resolveDeclarations(args.declarations, args.project, args.baseUrl)
     IN /\ resolved' = r.resolved
        /\ warnings' = r.warnings
        /\ pc' = IF r.threw THEN "threw" ELSE "returned"
  /\ UNCHANGED <<op, args, sections, output>>

DiscoverSectionsFromProject ==
  /\ pc = "called"
  /\ op = "discoverSectionsFromProject"
  /\ sections' = discoverSectionsFromProject(args.project, args.sectionConfig, args.baseUrl)
  /\ pc' = "returned"
  /\ UNCHANGED <<op, args, resolved, warnings, output>>

DiscoverSections ==
  /\ pc = "called"
  /\ op = "discoverSections"
  /\ sections' = discoverSections(args.projectDocuments, args.disk,
                                   args.sectionConfig, args.baseUrl)
  /\ pc' = "returned"
  /\ UNCHANGED <<op, args, resolved, warnings, output>>

AutoGenerateDeclarations ==
  /\ pc = "called"
  /\ op = "autoGenerateDeclarations"
  /\ resolved' = autoGenerateDeclarations(args.project, args.baseUrl)
  /\ pc' = "returned"
  /\ UNCHANGED <<op, args, warnings, sections, output>>

ApplyTemplate ==
  /\ pc = "called"
  /\ op = "applyTemplate"
  /\ output' = applyTemplate(args.template, args.content)
  /\ pc' = "returned"
  /\ UNCHANGED <<op, args, resolved, warnings, sections>>

StripYamlQuotes ==
  /\ pc = "called"
  /\ op = "stripYamlQuotes"
  /\ output' = stripYamlQuotes(args.value)
  /\ pc' = "returned"
  /\ UNCHANGED <<op, args, resolved, warnings, sections>>

ExtractFrontmatter ==
  /\ pc = "called"
  /\ op = "extractFrontmatter"
  /\ output' = extractFrontmatter(args.content)
  /\ pc' = "returned"
  /\ UNCHANGED <<op, args, resolved, warnings, sections>>

Next ==
  \/ ResolveDeclarations
  \/ DiscoverSectionsFromProject
  \/ DiscoverSections
  \/ AutoGenerateDeclarations
  \/ ApplyTemplate
  \/ StripYamlQuotes
  \/ ExtractFrontmatter

Spec == Init /\ [][Next]_vars

\* ------------------------------------------------------------------------
\* Properties of resolveDeclarations
\* ------------------------------------------------------------------------

Returned(o) == pc = "returned" /\ op = o

\* the number of '!' in a reference string
Bangs(ref) == Cardinality({i \in 1..Len(ref) : ref[i] = "!"})

\* The paths of the tree a walk by names can take: a child stands for its
\* name when no earlier sibling bears it.  Each path holds its names from
\* the top-level child down, and the reflection it ends at.
RECURSIVE NamedPaths(_, _)
NamedPaths(children, prefix) ==
  UNION { LET child == children[i]
              names == Append(prefix, child.name)
          IN IF \E j \in 1..(i - 1) : children[j].name = child.name
             THEN {}
             ELSE {[names |-> names, node |-> child]}
                    \cup NamedPaths(child.children, names)
          : i \in 1..Len(children) }

\* seg1.seg2...segn
RECURSIVE Dotted(_)
Dotted(segs) ==
  IF segs = <<>> THEN <<>>
  ELSE IF Len(segs) = 1 THEN segs[1]
  ELSE segs[1] \o <<".">> \o Dotted(Tail(segs))

\* name!seg1.seg2...segn for the names of a path
RefOf(names) == names[1] \o <<"!">> \o Dotted(Tail(names))

\* the paths a reference name!seg1...segn spells: its name is the top-level
\* name and its segments, none of which can hold a '.', the names below
SpelledBy(ref, project) ==
  { p \in NamedPaths(project.children, <<>>) :
      /\ RefOf(p.names) = ref
      /\ \A k \in 2..Len(p.names) : ~includes(p.names[k], ".") /\ p.names[k] # <<>> }

TheRequest == args.declarations[1]

\* C1: a reference name!seg1...segn with exactly one '!' resolves iff the
\* tree holds the chain of names it spells, and then to the URL of the last
\* reflection of the chain; a chain that breaks gives no result at all.
C1_ResolvesIffChain ==
  (Returned("resolveDeclarations") /\ Len(args.declarations) = 1
     /\ Bangs(TheRequest.ref) = 1)
  => LET chains == SpelledBy(TheRequest.ref, args.project)
     IN IF chains = {}
        THEN resolved = <<>>
        ELSE /\ Cardinality(chains) = 1
             /\ Len(resolved) = 1
             /\ \A p \in chains :
                  resolved[1].url = joinUrl(args.baseUrl, getFullUrl(p.node))

\* a chain that matches the module and its first segment and breaks at the
\* second one has returned nothing
C1_Witness ==
  /\ Returned("resolveDeclarations")
  /\ Len(args.declarations) = 1
  /\ TheRequest.ref = <<"a", "!", "b", ".", "b">>
  /\ SpelledBy(<<"a", "!", "b">>, args.project) # {}
  /\ SpelledBy(TheRequest.ref, args.project) = {}
  /\ resolved = <<>>

\* C2: a call whose references hold no '!' resolves none of them, whatever
\* the tree.
C2_NoBangNeverResolves ==
  (Returned("resolveDeclarations")
     /\ \A i \in 1..Len(args.declarations) : ~includes(args.declarations[i].ref, "!"))
  => resolved = <<>>

\* the reference is the very name of a top-level reflection
C2_Witness ==
  /\ Returned("resolveDeclarations")
  /\ Len(args.declarations) = 1
  /\ ~includes(TheRequest.ref, "!")
  /\ \E i \in 1..Len(args.project.children) :
       args.project.children[i].name = TheRequest.ref
  /\ resolved = <<>>

\* the requests of the call that resolve, each taken alone, in input order
ResolvableAlone ==
  LET Alone(d) ==
        resolveDeclarations(<<d>>, args.project, args.baseUrl).resolved # <<>>
  IN SelectSeq(args.declarations, Alone)

UnresolvableAlone ==
  LET Alone(d) ==
        resolveDeclarations(<<d>>, args.project, args.baseUrl).resolved = <<>>
  IN SelectSeq(args.declarations, Alone)

\* C3: no call throws; each request that does not resolve gives exactly
\* one warning, which ends with its raw reference, each request that
\* resolves gives none, so results and warnings add up to the requests.
C3_OneWarningPerFailure ==
  /\ pc # "threw"
  /\ Returned("resolveDeclarations")
     => /\ Len(resolved) + Len(warnings) = Len(args.declarations)
        /\ Len(warnings) = Len(UnresolvableAlone)
        /\ \A k \in 1..Len(warnings) :
             warnings[k] = <<WarnPrefix>> \o UnresolvableAlone[k].ref

\* a failure between two successes: both successes are in the result
C3_Witness ==
  /\ Returned("resolveDeclarations")
  /\ Len(args.declarations) = 3
  /\ Len(resolved) = 2
  /\ warnings = << <<WarnPrefix>> \o args.declarations[2].ref >>

\* C4: the result is the list of the requests that resolve alone, in input
\* order, each entry being what its request gives alone and bearing that
\* request's label and description.
C4_ResultIsConcatenation ==
  Returned("resolveDeclarations")
  => /\ Len(resolved) = Len(ResolvableAlone)
     /\ \A k \in 1..Len(resolved) :
          /\ resolved[k] = resolveDeclarations(<<ResolvableAlone[k]>>,
                             args.project, args.baseUrl).resolved[1]
          /\ resolved[k].label = ResolvableAlone[k].label
          /\ resolved[k].description = ResolvableAlone[k].description

\* two requests with different labels resolve around one that does not
C4_Witness ==
  /\ Returned("resolveDeclarations")
  /\ Len(args.declarations) = 3
  /\ Len(resolved) = 2
  /\ resolved[1].label # resolved[2].label
  /\ resolved[1].url # resolved[2].url
  /\ ~includes(args.declarations[2].ref, "!")

\* ------------------------------------------------------------------------
\* Properties of section discovery
\* ------------------------------------------------------------------------

SectionsReturned ==
  pc = "returned" /\ op \in {"discoverSectionsFromProject", "discoverSections"}

\* the documents handed to the call, in the order the code meets them
InputCount ==
  IF op = "discoverSectionsFromProject" THEN Len(args.documents)
  ELSE Len(args.projectDocuments)

\* the category the i-th input is filed under, if it is filed at all
InputCategory(i) ==
  IF op = "discoverSectionsFromProject"
  THEN Some(documentCategory(args.documents[i]))
  ELSE LET frontmatter == qualifyingFrontmatter(args.projectDocuments[i], args.disk)
       IN IF frontmatter = Undefined THEN Undefined ELSE frontmatter[1].category

\* the input at which a category is first discovered
FirstDiscovered(category) ==
  CHOOSE i \in 1..InputCount :
    /\ InputCategory(i) = Some(category)
    /\ \A j \in 1..(i - 1) : InputCategory(j) # Some(category)

Configured(section) == section.name \in DOMAIN args.sectionConfig

\* configured sections first, the others behind them in discovery order
ConfiguredFirst ==
  \A i, j \in 1..Len(sections) :
    /\ (Configured(sections[i]) /\ ~Configured(sections[j])) => i < j
    /\ (~Configured(sections[i]) /\ ~Configured(sections[j]) /\ i < j)
         => FirstDiscovered(sections[i].name) < FirstDiscovered(sections[j].name)

C6_UnlistedAlphabetical ==
  SectionsReturned
  => \A i, j \in 1..Len(sections) :
       /\ ~Configured(sections[i]) => sections[i].displayName = sections[i].name
       /\ (Configured(sections[i]) /\ ~Configured(sections[j])) => i < j
       /\ (~Configured(sections[i]) /\ ~Configured(sections[j]) /\ i < j)
            => localeCompare(sections[i].name, sections[j].name) <= 0

\* C7: in the returned list the names are pairwise distinct, the documents
\* of each section ascend by title and the sections ascend by order.
C7_SortedAndDistinct ==
  SectionsReturned
  => /\ \A i, j \in 1..Len(sections) :
          i # j => sections[i].name # sections[j].name
     /\ \A i \in 1..Len(sections) :
          \A k \in 1..(Len(sections[i].documents) - 1) :
            localeCompare(sections[i].documents[k].title,
                          sections[i].documents[k + 1].title) <= 0
     /\ \A i \in 1..(Len(sections) - 1) : sections[i].order <= sections[i + 1].order

\* the second category discovered is returned first, and a document that
\* was met later stands before an earlier one of its section
C7_Witness ==
  /\ SectionsReturned
  /\ Len(sections) >= 2
  /\ FirstDiscovered(sections[2].name) < FirstDiscovered(sections[1].name)
  /\ sections[1].order < sections[2].order
  /\ op = "discoverSectionsFromProject"
  /\ \E i \in 1..Len(sections) :
       /\ Len(sections[i].documents) >= 2
       /\ localeCompare(sections[i].documents[1].title,
                        sections[i].documents[2].title) < 0
       /\ \E m, n \in 1..InputCount :
            /\ m < n
            /\ sections[i].documents[1].path
                 = joinUrl(args.baseUrl, getFullUrl(args.documents[n]))
            /\ sections[i].documents[2].path
                 = joinUrl(args.baseUrl, getFullUrl(args.documents[m]))

\* The value a frontmatter block gives a key, read as a single-line
\* "key: value" entry: the rest of the first line that begins with the key,
\* trimmed and unquoted.
RECURSIVE FirstLineWith(_, _, _)
FirstLineWith(lines, key, i) ==
  IF i > Len(lines) THEN Undefined
  ELSE IF lines[i] # <<>> /\ Head(lines[i]) = key THEN Some(Tail(lines[i]))
  ELSE FirstLineWith(lines, key, i + 1)

LineValue(content, key) ==
  LET block == headerBlock(content)
  IN IF block = Undefined THEN Undefined
     ELSE LET line == FirstLineWith(split(block[1], "\n"), key, 1)
          IN IF line = Undefined THEN Undefined ELSE Some(stripYamlQuotes(line[1]))

\* a file whose frontmatter gives the key no value
Lacks(docPath, key) ==
  \/ args.disk[docPath] = Undefined
  \/ LineValue(args.disk[docPath][1], key) \in {Undefined, Some(<<>>)}

AllEntries ==
  UNION { {sections[i].documents[k] : k \in 1..Len(sections[i].documents)} :
          i \in 1..Len(sections) }

\* what discoverSections returns for the files that pass a test
DiscoveredWithout(Dropped(_)) ==
  LET Kept(docPath) == ~Dropped(docPath)
  IN discoverSections(SelectSeq(args.projectDocuments, Kept), args.disk,
                      args.sectionConfig, args.baseUrl)

\* C8: on both paths no entry of the result has an empty title, and a file
\* without a title adds nothing to the result.
C8_UntitledExcluded ==
  SectionsReturned
  => /\ \A e \in AllEntries : e.title # <<>>
     /\ op = "discoverSections"
        => LET NoTitle(docPath) == Lacks(docPath, "title:")
           IN sections = DiscoveredWithout(NoTitle)

IsAggregator(file) == basename(file) = <<"all", ".md">>

\* C9: on both paths the aggregator all.md adds nothing to the result.
C9_AggregatorExcluded ==
  SectionsReturned
  => /\ op = "discoverSections" => sections = DiscoveredWithout(IsAggregator)
     /\ op = "discoverSectionsFromProject"
        => \A i \in 1..InputCount :
             IsAggregator(args.documents[i].file)
             => \A e \in AllEntries :
                  e.path # joinUrl(args.baseUrl, getFullUrl(args.documents[i]))

\* a document reflection without a category: no non-empty string in the
\* frontmatter and no @category tag with text
NoCategory(doc) ==
  /\ frontmatterCategory(doc) = Undefined
  /\ \/ doc.comment = Undefined
     \/ \A t \in 1..Len(doc.comment[1].blockTags) :
          doc.comment[1].blockTags[t].tag = "@category"
          => trim(joinParts(doc.comment[1].blockTags[t].content)) = <<>>

\* C10: discoverSectionsFromProject files every document, those without a
\* category under "Documentation"; for discoverSections a file without a
\* category adds nothing to the result.
C10_MissingCategoryPolicy ==
  SectionsReturned
  => /\ op = "discoverSectionsFromProject"
        => \A i \in 1..InputCount :
             \E s \in 1..Len(sections) :
               /\ \E k \in 1..Len(sections[s].documents) :
                    sections[s].documents[k].path
                      = joinUrl(args.baseUrl, getFullUrl(args.documents[i]))
               /\ NoCategory(args.documents[i]) => sections[s].name = DefaultCategory
     /\ op = "discoverSections"
        => LET NoCategoryLine(docPath) == Lacks(docPath, "category:")
           IN sections = DiscoveredWithout(NoCategoryLine)

\* ------------------------------------------------------------------------
\* Properties of the template engine
\* ------------------------------------------------------------------------

\* a bare word, or word:word
IsWord(s) == s # <<>> /\ \A i \in 1..Len(s) : s[i] \in WordChars

IsToken(s) ==
  \/ IsWord(s)
  \/ \E k \in 2..(Len(s) - 1) :
       /\ s[k] = ":"
       /\ IsWord(SubSeq(s, 1, k - 1))
       /\ IsWord(SubSeq(s, k + 1, Len(s)))

\* the text from i to e is a placeholder {{token}}
PlaceholderAt(t, i, e) ==
  /\ i >= 1 /\ i + 4 <= e /\ e <= Len(t)
  /\ t[i] = "{" /\ t[i + 1] = "{" /\ t[e - 1] = "}" /\ t[e] = "}"
  /\ IsToken(SubSeq(t, i + 2, e - 2))

\* where the placeholder that begins at i ends, or 0 when none begins there
PlaceholderEnd(t, i) ==
  IF t[i] # "{" THEN 0
  ELSE LET ends == {e \in (i + 4)..Len(t) : PlaceholderAt(t, i, e)}
       IN IF ends = {} THEN 0 ELSE CHOOSE e \in ends : TRUE

TokenAt(t, i) == SubSeq(t, i + 2, PlaceholderEnd(t, i) - 2)

SlotStarts(t) == {i \in 1..Len(t) : PlaceholderEnd(t, i) # 0}

KnownToken(token) ==
  \/ token \in {<<"header">>, <<"sections">>, <<"declarations">>, <<"quickReference">>}
  \/ Len(token) >= 2 /\ token[1] = "section" /\ token[2] = ":"

UnknownSlotComment(token) == <<"<!-- Unknown slot: ">> \o token \o <<" -->">>

\* the template's text with every placeholder of an unknown token turned
\* into its comment and every other placeholder into its fragment
RECURSIVE Commented(_, _, _)
Commented(t, content, i) ==
  IF i > Len(t) THEN <<>>
  ELSE LET end == PlaceholderEnd(t, i)
           token == SubSeq(t, i + 2, end - 2)
       IN IF end = 0
          THEN <<t[i]>> \o Commented(t, content, i + 1)
          ELSE (IF KnownToken(token)
                THEN renderSlot(token, content)
                ELSE UnknownSlotComment(token))
                 \o Commented(t, content, end + 1)

\* C11: applyTemplate returns for every template and content; a placeholder
\* whose token is not header, sections, declarations, quickReference or
\* section:X gives an 'Unknown slot' comment naming the token, and the text
\* outside the placeholders is copied unchanged and in order.
C11_UnknownSlotsCommented ==
  /\ op = "applyTemplate" => pc \in {"called", "returned"}
  /\ Returned("applyTemplate")
     => output = Commented(args.template, args.content, 1)

\* "A{{unknown}}A" gives A, the comment, A
C11_Witness ==
  /\ Returned("applyTemplate")
  /\ args.template = <<"A">> \o Placeholder(<<"unknown">>) \o <<"A">>
  /\ output = <<"A", "<!-- Unknown slot: ", "unknown", " -->", "A">>

\* Walking the template from position i with the output read up to
\* position o: each placeholder's fragment stands in the output verbatim
\* where the text and the fragments before it end, each character of other
\* text takes one place, and the output ends where the template does.
RECURSIVE FragmentsInPlace(_, _, _)
FragmentsInPlace(t, i, o) ==
  IF i > Len(t) THEN o = Len(output)
  ELSE LET end == PlaceholderEnd(t, i)
           fragment == renderSlot(SubSeq(t, i + 2, end - 2), args.content)
       IN IF end = 0 THEN FragmentsInPlace(t, i + 1, o + 1)
          ELSE /\ o + Len(fragment) <= Len(output)
               /\ SubSeq(output, o + 1, o + Len(fragment)) = fragment
               /\ FragmentsInPlace(t, end + 1, o + Len(fragment))

\* C12: one pass, nothing expanded twice: each placeholder of the template
\* gives its fragment verbatim, placeholder text within it included, at
\* the place the fragments before it leave it; the output is as long as the
\* template with each placeholder exchanged for its fragment once; and an
\* output without placeholders is a template that gives itself.
C12_SinglePass ==
  Returned("applyTemplate")
  => /\ FragmentsInPlace(args.template, 1, 0)
     /\ SlotStarts(output) = {}
        => applyTemplate(output, args.content) = output

\* the header's name is the text {{header}}, which the output still holds
C12_Witness ==
  /\ Returned("applyTemplate")
  /\ args.template = Placeholder(<<"header">>)
  /\ args.content.header.name = Placeholder(<<"header">>)
  /\ SlotStarts(output) # {}
  /\ PlaceholderEnd(output, 2) # 0 /\ TokenAt(output, 2) = <<"header">>

\* the sections of the bundle that X names, by name or by display name
NamedBy(contentSections, X) ==
  {k \in 1..Len(contentSections) :
     contentSections[k].name = X \/ contentSections[k].displayName = X}

Reversed(list) == [k \in 1..Len(list) |-> list[Len(list) + 1 - k]]

\* C13: {{section:X}} gives the rendering of the one section that X names
\* by name or display name, the same wherever the sections stand in the
\* list, and a 'not found' comment when X names none.
C13_NamedSectionUnique ==
  (Returned("applyTemplate")
     /\ Len(args.template) >= 7
     /\ IsWord(SubSeq(args.template, 5, Len(args.template) - 2))
     /\ args.template
          = Placeholder(<<"section", ":">> \o SubSeq(args.template, 5, Len(args.template) - 2)))
  => LET X == SubSeq(args.template, 5, Len(args.template) - 2)
         named == NamedBy(args.content.sections, X)
     IN /\ named = {}
           => output = <<"<!-- Section \"">> \o X \o <<"\" not found -->">>
        /\ named # {}
           => /\ \E k \in named : output = renderSection(args.content.sections[k])
              /\ output = applyTemplate(args.template,
                            [args.content EXCEPT !.sections = Reversed(@)])
              /\ \A k \in named :
                   args.content.sections[k].name = X
                   => output = renderSection(args.content.sections[k])

\* ------------------------------------------------------------------------
\* Properties of the URLs
\* ------------------------------------------------------------------------

\* the base without one trailing '/', one '/', the path without one
\* leading '/'; the path alone when the base is empty
SingleSlashJoin(base, urlPath) ==
  IF base = <<>> THEN urlPath
  ELSE (IF base[Len(base)] = "/" THEN SubSeq(base, 1, Len(base) - 1) ELSE base)
         \o <<"/">>
         \o (IF urlPath # <<>> /\ urlPath[1] = "/" THEN Tail(urlPath) ELSE urlPath)

\* the URLs of the reflections of a tree
RECURSIVE RouterUrls(_)
RouterUrls(children) ==
  UNION { {getFullUrl(children[i])} \cup RouterUrls(children[i].children) :
          i \in 1..Len(children) }

\* the URLs of resolved and of generated declarations
DeclarationUrlsJoined ==
  /\ Returned("resolveDeclarations")
     => \A k \in 1..Len(resolved) :
          \E u \in RouterUrls(args.project.children) :
            resolved[k].url = SingleSlashJoin(args.baseUrl, u)
  /\ Returned("autoGenerateDeclarations")
     => /\ Len(resolved) = Len(args.project.children)
        /\ \A k \in 1..Len(resolved) :
             resolved[k].url
               = SingleSlashJoin(args.baseUrl, getFullUrl(args.project.children[k]))

\* the links of the documents of a project
ProjectLinksJoined ==
  Returned("discoverSectionsFromProject")
  => \A e \in AllEntries :
       \E i \in 1..Len(args.documents) :
         e.path = SingleSlashJoin(args.baseUrl, getFullUrl(args.documents[i]))

\* the links of the files: the path of a file is documents/<title>/
FileLinksJoined ==
  Returned("discoverSections")
  => \A e \in AllEntries :
       e.path = SingleSlashJoin(args.baseUrl,
                  <<"documents", "/">> \o titleToUrlPath(e.title) \o <<"/">>)

\* C14: every URL that is produced, a document's link on either discovery
\* path, a resolved or a generated declaration's URL, is the base URL and
\* the path joined by exactly one '/', and the path itself when the base
\* URL is empty.
C14_UrlsJoinedBySingleSlash ==
  DeclarationUrlsJoined /\ ProjectLinksJoined /\ FileLinksJoined

\* ------------------------------------------------------------------------
\* Properties of the frontmatter extractor
\* ------------------------------------------------------------------------

Blank(s) == \A i \in 1..Len(s) : s[i] \in Whitespace

\* the value without the whitespace around it: the part from its first to
\* its last character that is no whitespace
Core(value) ==
  IF Blank(value) THEN <<>>
  ELSE LET solid == {i \in 1..Len(value) : value[i] \notin Whitespace}
           first == CHOOSE i \in solid : \A j \in solid : i <= j
           last == CHOOSE i \in solid : \A j \in solid : j <= i
       IN SubSeq(value, first, last)

QuotedAlike(t) ==
  Len(t) >= 2 /\ t[1] = t[Len(t)] /\ t[1] \in {"'", "\""}

\* C15: stripYamlQuotes gives the trimmed value without its outer pair of
\* quotes when it begins and ends with the same quote character, inner
\* quotes kept, and the trimmed value itself in every other case, a lone
\* quote character among them.
C15_OneOuterPairStripped ==
  Returned("stripYamlQuotes")
  => LET t == Core(args.value)
     IN /\ QuotedAlike(t) => <<t[1]>> \o output \o <<t[1]>> = t
        /\ ~QuotedAlike(t) => output = t

\* a padded value in single quotes with a double quote and a single quote
\* within: only the outer pair goes
C15_Witness ==
  /\ Returned("stripYamlQuotes")
  /\ args.value = <<" ", "'", "\"", "'", "'">>
  /\ output = <<"\"", "'">>

\* the values the lines of the header that begin with a key give it, each
\* read from its own line: the rest of the line, trimmed and unquoted, when
\* that leaves anything
OwnLineValues(content, key) ==
  LET block == headerBlock(content)
      lines == IF block = Undefined THEN <<>> ELSE split(block[1], "\n")
  IN { stripYamlQuotes(Tail(lines[i])) :
         i \in {j \in 1..Len(lines) :
                  /\ lines[j] # <<>>
                  /\ Head(lines[j]) = key
                  /\ stripYamlQuotes(Tail(lines[j])) # <<>>} }

\* a field agrees with the lines of its key: absent (or empty) when no
\* such line has a value, else the value of one of them
FromOwnLine(field, key) ==
  IF OwnLineValues(args.content, key) = {}
  THEN field \in {Undefined, Some(<<>>)}
  ELSE field # Undefined /\ field[1] \in OwnLineValues(args.content, key)

\* C16: extractFrontmatter reads title and category each from a line of its
\* own: a key without a value on its line is absent and never takes the
\* following line, and neither key changes what the other one gives.
C16_FieldsFromOwnLines ==
  (Returned("extractFrontmatter") /\ output # Undefined)
  => /\ FromOwnLine(output[1].title, "title:")
     /\ FromOwnLine(output[1].category, "category:")

\* ------------------------------------------------------------------------
\* Round trip of resolveDeclarations
\* ------------------------------------------------------------------------

\* C17: a request that resolves gives the URL of a reflection whose path of
\* names, written name!seg1.seg2...segn, is the request's whole reference;
\* no reference resolves by a part of its characters only.
C17_ReferenceRoundTrip ==
  (Returned("resolveDeclarations") /\ Len(args.declarations) = 1 /\ resolved # <<>>)
  => \E p \in NamedPaths(args.project.children, <<>>) :
       /\ resolved[1].url = joinUrl(args.baseUrl, getFullUrl(p.node))
       /\ RefOf(p.names) = TheRequest.ref

====
